---- MODULE Spec2Model ----
(***************************************************************************)
(* Abnormalie: the anomaly-scoring engine of src/abnormalie.js as a state  *)
(* machine.  The state is the script's telemetryData object, the           *)
(* localStorage item it is saved to, and the clock; the operations are     *)
(* analyzeNetworkRequest, reportFalsePositive, reportFalseNegative and the *)
(* script's start-up (a page load that constructs telemetryData).          *)
(*                                                                         *)
(* Strings that the code cuts or measures (URLs, bodies) are sequences of  *)
(* one-character strings; strings it only measures are TLA+ strings.       *)
(* Math.random() is a choice from the grid {0/RandDen .. (RandDen-1)/      *)
(* RandDen}.  Scores are fixed-point numbers in units of 1/ScoreScale.     *)
(* The thresholds that the code writes as 10000, 1000, 100, 3600000 and    *)
(* the forest's (200, 512, 15) are scaled down; each definition names the  *)
(* line that sets the original.                                            *)
(***************************************************************************)
EXTENDS Integers, Sequences, FiniteSets, TLC

(* ------------------------------ bounds --------------------------------- *)

\* src/abnormalie.js:150  networkRequests is capped at 10,000 (scaled).
maxRequestHistory == 3
\* src/abnormalie.js:168  anomalyScores is capped at 1,000 (scaled).
maxScoreHistory == 2
\* src/abnormalie.js:158  training starts at 100 requests (scaled).
minTrainingSize == 2
\* src/abnormalie.js:158  retrain after more than 3,600,000 ms (scaled: ticks).
retrainIntervalMs == 1
\* src/abnormalie.js:159  new IsolationForest(200, 512, 15) (scaled).
numTrees == 1
sampleSize == 3
maxDepth == 1
\* Math.random() returns k/RandDen, k in 0..RandDen-1.
RandDen == 2
\* Scores are integers in units of 1/ScoreScale.
ScoreScale == 1000
\* src/abnormalie.js:127  the literal 0.5772, in units of 1/LogScale.
EulerGamma == 5772
\* The clock runs from 0 to MaxTime.
MaxTime == 2
\* Steps (handler calls, page loads, passages of time) per behaviour.
MaxSteps == 4
\* The longest score history that calculateDynamicThreshold is given on its
\* own, and the number of score levels in those histories.
MaxScores == 21
ScoreLevels == 23
\* The largest dataset and the largest maxDepth that buildTree and train are
\* given on their own.
MaxPoints == 3
MaxTreeDepth == 2
\* Outbound calls the page makes through the hooks.
MaxCalls == 2
\* Characters in a query string of the signature comparison.
MaxQueryLen == 3

(* ------------------------------ strings -------------------------------- *)

\* The characters of the modelled strings in UTF-16 code-unit order.
AsciiOrder == <<"\"", "&", ",", "-", ".", "/", "1", "2", ":", "=", "?", "a", "b", "h", "k", "p">>

Code(ch) == CHOOSE i \in 1..Len(AsciiOrder) : AsciiOrder[i] = ch

\* String.prototype.indexOf, 1-based, 0 when absent.
IndexOf(s, ch) ==
    IF \E i \in 1..Len(s) : s[i] = ch
    THEN CHOOSE i \in 1..Len(s) : s[i] = ch /\ \A j \in 1..(i - 1) : s[j] # ch
    ELSE 0

RECURSIVE Split(_, _)
\* String.prototype.split(ch): the segments between the occurrences of ch.
Split(s, ch) ==
    LET i == IndexOf(s, ch)
    IN  IF i = 0 THEN <<s>>
        ELSE <<SubSeq(s, 1, i - 1)>> \o Split(SubSeq(s, i + 1, Len(s)), ch)

RECURSIVE Join(_, _)
\* Array.prototype.join(sep) of a sequence of strings.
Join(parts, sep) ==
    IF Len(parts) = 0 THEN <<>>
    ELSE IF Len(parts) = 1 THEN parts[1]
    ELSE parts[1] \o sep \o Join(Tail(parts), sep)

\* a < b as JavaScript compares strings: by code units, a prefix first.
StrLess(a, b) ==
    \E i \in 1..(Len(b)) :
        /\ \A j \in 1..(i - 1) : j <= Len(a) /\ a[j] = b[j]
        /\ \/ i = Len(a) + 1
           \/ i <= Len(a) /\ Code(a[i]) < Code(b[i])

(* ------------------------------- URLs ---------------------------------- *)

\* The scheme and authority marker of the modelled absolute URLs ("http://").
SchemePrefix == <<"h", ":", "/", "/">>

\* Faulty variant of isValidUrl: every non-empty string passes.
isValidUrl_Any(url) == Len(url) > 0

\* src/abnormalie.js:43-50  new URL(url) succeeds: an absolute URL with a host.
isValidUrl(url) ==
    /\ Len(url) > Len(SchemePrefix)
    /\ SubSeq(url, 1, Len(SchemePrefix)) = SchemePrefix
    /\ url[Len(SchemePrefix) + 1] \notin {"/", "?"}

\* The first index of s, from position from on, that holds one of chars; Len(s)+1 if none.
FirstOf(s, from, chars) ==
    IF \E i \in from..Len(s) : s[i] \in chars
    THEN CHOOSE i \in from..Len(s) : s[i] \in chars /\ \A j \in from..(i - 1) : s[j] \notin chars
    ELSE Len(s) + 1

\* URLSearchParams(query): the name/value pairs of a query string, in order.
URLSearchParams(query) ==
    LET segs == SelectSeq(Split(query, "&"), LAMBDA seg : Len(seg) > 0)
        pair(seg) == LET i == IndexOf(seg, "=")
                     IN  IF i = 0 THEN <<seg, <<>>>>
                         ELSE <<SubSeq(seg, 1, i - 1), SubSeq(seg, i + 1, Len(seg))>>
    IN  [i \in 1..Len(segs) |-> pair(segs[i])]

\* URLSearchParams.prototype.toString(): name=value joined by "&".
SearchParamsToString(entries) ==
    Join([i \in 1..Len(entries) |-> entries[i][1] \o <<"=">> \o entries[i][2]], <<"&">>)

\* new URL(url) for a valid url: hostname, pathname ("/" when empty), search, href.
ParseURL(url) ==
    LET h0 == Len(SchemePrefix) + 1
        h1 == FirstOf(url, h0, {"/", "?"})
        q  == FirstOf(url, h1, {"?"})
        host == SubSeq(url, h0, h1 - 1)
        rawPath == SubSeq(url, h1, q - 1)
        path == IF rawPath = <<>> THEN <<"/">> ELSE rawPath
        \* URL.search is "" when the query is empty, "?..." otherwise
        search == IF q >= Len(url) THEN <<>> ELSE SubSeq(url, q, Len(url))
    IN  [hostname |-> host,
         pathname |-> path,
         search |-> search,
         searchParams |-> URLSearchParams(IF search = <<>> THEN <<>> ELSE Tail(search)),
         href |-> SchemePrefix \o host \o path \o SubSeq(url, q, Len(url))]

\* url.split("?")[0]
BaseOf(url) == Split(url, "?")[1]

\* url.split("?")[1] || ""
QueryOf(url) == LET parts == Split(url, "?") IN IF Len(parts) >= 2 THEN parts[2] ELSE <<>>

(* ----------------------- parameter signature --------------------------- *)

\* String(entry) of a [name, value] array: "name,value".
EntryString(e) == e[1] \o <<",">> \o e[2]

\* One step of the stable sort: e goes before the first element greater than it.
InsertSorted(sorted, e) ==
    LET later == {i \in 1..Len(sorted) : StrLess(EntryString(e), EntryString(sorted[i]))}
        at == IF later = {} THEN Len(sorted) + 1
              ELSE CHOOSE i \in later : \A j \in later : i <= j
    IN  SubSeq(sorted, 1, at - 1) \o <<e>> \o SubSeq(sorted, at, Len(sorted))

RECURSIVE SortEntries(_)
\* Array.prototype.sort() without a comparator: by String(entry), stable.
SortEntries(entries) ==
    IF Len(entries) = 0 THEN <<>>
    ELSE InsertSorted(SortEntries(SubSeq(entries, 1, Len(entries) - 1)), entries[Len(entries)])

\* src/abnormalie.js:182-183  Array.from(params.entries()).sort().toString()
paramHash(url) ==
    LET sorted == SortEntries(URLSearchParams(QueryOf(url)))
    IN  Join([i \in 1..Len(sorted) |-> EntryString(sorted[i])], <<",">>)

(* ------------------------------ bodies --------------------------------- *)

\* A request body: absent, a string, or an object with a reference cycle.
NoBody == [kind |-> "undefined", chars |-> <<>>]
StringBody(chars) == [kind |-> "string", chars |-> chars]
CyclicBody == [kind |-> "cyclic", chars |-> <<>>]

\* JavaScript truthiness of a body: undefined and "" are falsy.
Truthy(body) == body.kind = "cyclic" \/ (body.kind = "string" /\ body.chars # <<>>)

\* JSON.stringify(body): a string is quoted; a cyclic object raises TypeError.
JSONstringify(body) ==
    IF body.kind = "cyclic" THEN [threw |-> TRUE, value |-> <<>>]
    ELSE [threw |-> FALSE, value |-> <<"\"">> \o body.chars \o <<"\"">>]

(* --------------------------- identifier scan --------------------------- *)

HexChars == {"a", "b", "1", "2"}
DigitChars == {"1", "2"}
WordChars == {"1", "2", "a", "b", "h", "k", "p"}
TokenChars == WordChars \cup {"-"}

\* The lengths of the groups of a UUID and the positions of its hyphens.
UuidLen == 8 + 1 + 4 + 1 + 4 + 1 + 4 + 1 + 12
UuidHyphens == {9, 14, 19, 24}

\* \b at position i of s: exactly one of s[i-1], s[i] is a word character.
WordBoundary(s, i) ==
    LET w(j) == j >= 1 /\ j <= Len(s) /\ s[j] \in WordChars
    IN  w(i - 1) # w(i)

\* The length of the run of characters of class from position i.
RunLen(s, i, class) == FirstOf(s, i, {s[j] : j \in i..Len(s)} \ class) - i

\* The ways \d{1,3}\.\d{1,3}\.\d{1,3}\.\d{1,3} matches at i: the four group lengths.
QuadShapes(s, i) ==
    {n \in [1..4 -> 1..3] :
        LET start(g) == i + (g - 1) + (IF g > 1 THEN n[1] ELSE 0)
                          + (IF g > 2 THEN n[2] ELSE 0) + (IF g > 3 THEN n[3] ELSE 0)
            end == start(4) + n[4] - 1
        IN  /\ end <= Len(s)
            /\ \A g \in 1..4 : \A j \in start(g)..(start(g) + n[g] - 1) : s[j] \in DigitChars
            /\ \A g \in 2..4 : s[start(g) - 1] = "."
            /\ WordBoundary(s, end + 1)}

\* The shape the backtracking matcher finds first: each group as long as it can be.
GreedyShape(shapes) ==
    CHOOSE n \in shapes : \A m \in shapes :
        \A g \in 1..4 : (\A h \in 1..(g - 1) : m[h] = n[h]) => m[g] <= n[g]

\* The length of the match of pattern p at position i of s, 0 when there is none.
\* src/abnormalie.js:226-228
MatchLenAt(p, s, i) ==
    CASE p = 1 ->
            IF /\ i + UuidLen - 1 <= Len(s)
               /\ \A j \in 1..UuidLen :
                      IF j \in UuidHyphens THEN s[i + j - 1] = "-"
                      ELSE s[i + j - 1] \in HexChars
            THEN UuidLen ELSE 0
      [] p = 2 -> IF RunLen(s, i, TokenChars) >= 20 THEN RunLen(s, i, TokenChars) ELSE 0
      [] p = 3 ->
            IF WordBoundary(s, i) /\ QuadShapes(s, i) # {}
            THEN LET n == GreedyShape(QuadShapes(s, i)) IN n[1] + n[2] + n[3] + n[4] + 3
            ELSE 0

RECURSIVE MatchAll(_, _, _)
\* String.prototype.match with a /g pattern: the matches from left to right.
MatchAll(p, s, i) ==
    IF i > Len(s) THEN <<>>
    ELSE LET n == MatchLenAt(p, s, i)
         IN  IF n > 0 THEN <<SubSeq(s, i, i + n - 1)>> \o MatchAll(p, s, i + n)
             ELSE MatchAll(p, s, i + 1)

RECURSIVE Dedupe(_)
\* [...new Set(xs)]: the first occurrence of each element, in order.
Dedupe(xs) ==
    IF Len(xs) = 0 THEN <<>>
    ELSE LET init == Dedupe(SubSeq(xs, 1, Len(xs) - 1))
             last == xs[Len(xs)]
         IN  IF \E i \in 1..Len(init) : init[i] = last THEN init ELSE Append(init, last)

\* src/abnormalie.js:223-239
extractIdentifiers(data) ==
    Dedupe(MatchAll(1, data, 1) \o MatchAll(2, data, 1) \o MatchAll(3, data, 1))

(* --------------------------- isolation forest -------------------------- *)

\* The numerators k of the values k/RandDen that Math.random() returns.
Rand == 0..(RandDen - 1)

\* Math.floor(r * n) for r = k/RandDen.
RandomIndex(k, n) == (k * n) \div RandDen

SeqMin(values) == CHOOSE v \in {values[i] : i \in 1..Len(values)} :
                      \A i \in 1..Len(values) : v <= values[i]
SeqMax(values) == CHOOSE v \in {values[i] : i \in 1..Len(values)} :
                      \A i \in 1..Len(values) : v >= values[i]

\* src/abnormalie.js:110-116  the samples getRandomSample can draw, with replacement.
getRandomSample(data, size) ==
    {[i \in 1..size |-> data[RandomIndex(r[i], Len(data)) + 1]] : r \in [1..size -> Rand]}

\* src/abnormalie.js:119-122  min + r * (max - min), as a numerator over RandDen.
getRandomValue(data, feature, k) ==
    LET values == [i \in 1..Len(data) |-> data[i][feature + 1]]
    IN  SeqMin(values) * RandDen + k * (SeqMax(values) - SeqMin(values))

\* point[feature] < splitValue, splitValue a numerator over RandDen.
LessThanSplit(point, feature, splitValue) == point[feature + 1] * RandDen < splitValue

\* The outcome of a call: a value, or a TypeError raised.
Returned(v) == [threw |-> FALSE, value |-> v]
Threw == [threw |-> TRUE, value |-> 0]

\* data[i] for an index that data does not have: undefined.  Feature values
\* are never negative, so no point of a dataset is this one.
Undefined == <<-1>>

\* src/abnormalie.js:59-64  new IsolationForest(numTrees, sampleSize, maxDepth)
IsolationForest(n, s, d) ==
    [class |-> "IsolationForest", numTrees |-> n, sampleSize |-> s, maxDepth |-> d,
     trees |-> <<>>]

\* src/abnormalie.js:110-116 on any array: data[Math.floor(r * 0)] of an empty
\* array is undefined.
getRandomSampleOf(data, size) ==
    IF Len(data) = 0 THEN {[i \in 1..size |-> Undefined]} ELSE getRandomSample(data, size)

\* Faulty variant of buildTree: every leaf records one point more than it holds.
buildTree_Oversized(this, data, depth) == {Returned([size |-> Len(data) + 1])}

RECURSIVE buildTree(_, _, _)
\* src/abnormalie.js:83-97  the outcomes of buildTree for data at depth, one
\* for each run of Math.random().  A leaf holds only size; an inner node holds
\* feature, splitValue, left and right.  Line 86 reads length of data[0] and
\* line 120 a field of every point: both raise on undefined.
buildTree(this, data, depth) ==
    IF Len(data) <= 1 \/ depth >= this.maxDepth
    THEN {Returned([size |-> Len(data)])}
    ELSE IF \E i \in 1..Len(data) : data[i] = Undefined
    THEN {Threw}
    ELSE UNION {
           LET feature == RandomIndex(kf, Len(data[1]))
               splitValue == getRandomValue(data, feature, ks)
               left == SelectSeq(data, LAMBDA point : LessThanSplit(point, feature, splitValue))
               right == SelectSeq(data, LAMBDA point : ~LessThanSplit(point, feature, splitValue))
           IN  {IF l.threw \/ r.threw THEN Threw
                ELSE Returned([feature |-> feature, splitValue |-> splitValue,
                               left |-> l.value, right |-> r.value]) :
                   l \in buildTree(this, left, depth + 1),
                   r \in buildTree(this, right, depth + 1)}
           : kf \in Rand, ks \in Rand}

\* Faulty variant of train: the forest is returned as the constructor left it.
train_Untrained(this, data) == {Returned(this)}

\* src/abnormalie.js:67-73  the outcomes of this.train(data): the forest with
\* its numTrees trees, or the error that a buildTree raised, which leaves the
\* forest with the trees pushed before it.  A sample holds undefined either
\* everywhere or nowhere, so a build that raises is the first one.
train(this, data) ==
    LET built == UNION {buildTree(this, sample, 0) :
                          sample \in getRandomSampleOf(data, this.sampleSize)}
        trees == {b.value : b \in {x \in built : ~x.threw}}
    IN  IF this.numTrees > 0 /\ Threw \in built
        THEN {[threw |-> TRUE, value |-> [this EXCEPT !.trees = <<>>]]}
        ELSE {Returned([this EXCEPT !.trees = t]) : t \in [1..this.numTrees -> trees]}

RECURSIVE pathLength(_, _)
\* src/abnormalie.js:100-107.  At a leaf of size 2 or more the test of line 101
\* fails, the leaf has no feature, splitValue, left or right, the comparison of
\* line 102 is false and line 105 reads size of the undefined tree.right.
pathLength(dataPoint, tree) ==
    IF "size" \in DOMAIN tree
    THEN IF tree.size <= 1 THEN Returned(1) ELSE Threw
    ELSE LET below == pathLength(dataPoint,
                         IF LessThanSplit(dataPoint, tree.feature, tree.splitValue)
                         THEN tree.left ELSE tree.right)
         IN  IF below.threw THEN Threw ELSE Returned(1 + below.value)

\* Math.log(k) in units of 1/LogScale.
LogScale == 10 * ScoreScale
MathLog(k) ==
    LET table == <<0, 6931, 10986, 13863, 16094, 17918, 19459, 20794, 21972, 23026,
                   23979, 24849, 25649, 26391, 27081, 27726>>
    IN  (table[k] * LogScale) \div 10000

\* src/abnormalie.js:125-128  in units of 1/LogScale.
c(n) ==
    IF n <= 1 THEN LogScale
    ELSE 2 * (MathLog(n - 1) + (EulerGamma * LogScale) \div 10000) - (2 * (n - 1) * LogScale) \div n

\* 2 ** (num/den) in units of 1/ScoreScale, den > 0; the fraction of the
\* exponent is rounded down to eighths.
Pow2(num, den) ==
    LET whole == num \div den
        eighths == (8 * (num - whole * den)) \div den
        table == <<1024, 1117, 1218, 1328, 1448, 1579, 1722, 1878>>
        scaled == table[eighths + 1] * ScoreScale
    IN  IF whole >= 0 THEN (scaled * 2 ^ whole) \div 1024
        ELSE IF whole < -20 THEN 0
        ELSE scaled \div (1024 * 2 ^ (0 - whole))

RECURSIVE SumSeq(_)
SumSeq(xs) == IF Len(xs) = 0 THEN 0 ELSE xs[1] + SumSeq(Tail(xs))

\* src/abnormalie.js:76-80  n is telemetryData.networkRequests.length.
\* A forest read back from localStorage is a plain object: it has no predict.
predict(forest, dataPoint, n) ==
    IF forest.class # "IsolationForest" THEN Threw
    ELSE LET pathLengths == [i \in 1..Len(forest.trees) |-> pathLength(dataPoint, forest.trees[i])]
         IN  IF \E i \in 1..Len(pathLengths) : pathLengths[i].threw THEN Threw
             ELSE Returned(Pow2(0 - SumSeq([i \in 1..Len(pathLengths) |-> pathLengths[i].value]) * LogScale,
                                forest.numTrees * c(n)))

(* --------------------------- dynamic threshold ------------------------- *)

\* src/abnormalie.js:243  the default threshold 0.8.
DefaultThreshold == (8 * ScoreScale) \div 10

RECURSIVE SortAscending(_)
\* [...scores].sort((a, b) => a - b)
SortAscending(scores) ==
    IF Len(scores) = 0 THEN <<>>
    ELSE LET rest == SortAscending(SubSeq(scores, 1, Len(scores) - 1))
             x == scores[Len(scores)]
             at == Cardinality({i \in 1..Len(rest) : rest[i] <= x}) + 1
         IN  SubSeq(rest, 1, at - 1) \o <<x>> \o SubSeq(rest, at, Len(rest))

\* Math.floor(0.95 * n), 0-based.
PercentileIndex(n) == (95 * n) \div 100

\* Faulty variant of calculateDynamicThreshold: the caller's array is sorted in
\* place.
calculateDynamicThreshold_InPlace(scores) ==
    [value |-> IF Len(scores) = 0 THEN DefaultThreshold
               ELSE SortAscending(scores)[PercentileIndex(Len(scores)) + 1],
     scores |-> SortAscending(scores)]

\* src/abnormalie.js:242-247  the value returned, and the caller's array after
\* the call: line 244 sorts a copy, so the array is as it was.
calculateDynamicThreshold(scores) ==
    [value |-> IF Len(scores) = 0 THEN DefaultThreshold
               ELSE SortAscending(scores)[PercentileIndex(Len(scores)) + 1],
     scores |-> scores]

(* --------------------------- telemetry state --------------------------- *)

VARIABLES
    telemetryData,    \* src/abnormalie.js:5   the script's state object
    hasLocalStorage,  \* whether the host has window.localStorage
    useLocalStorage,  \* src/abnormalie.js:6
    storedItem,       \* the localStorage item under STORAGE_KEY
    now,              \* Date.now()
    lastCall,         \* what the most recent handler call did, as an observer sees it
    ingested,         \* the (base URL, signature) pairs of the calls of analyzeNetworkRequest so far
    accepted,         \* the calls so far with a valid URL and a serializable body
    scorings,         \* the calls so far that appended a score
    failures,         \* the calls so far in which a step raised an error
    loads,            \* page loads so far
    steps,            \* steps so far
    page              \* the page's calls through the hooked fetch and XMLHttpRequest

vars == <<telemetryData, hasLocalStorage, useLocalStorage, storedItem, now, lastCall,
          ingested, accepted, scorings, failures, loads, steps, page>>

\* The page has made no call: the one XMLHttpRequest object it uses is not
\* opened and has no listener; no fetch is pending; no listener is due to run;
\* it has no URLs lined up to request.
NoPage ==
    [xhr |-> [opened |-> FALSE, request |-> 0, inFlight |-> FALSE, listeners |-> 0],
     fetchPending |-> 0,
     due |-> 0,
     calls |-> 0,
     urls |-> <<>>,
     last |-> [kind |-> "none", original |-> "none", hooked |-> "none", value |-> "none",
               ingests |-> 0]]

\* isolationForest: null
NullForest == [class |-> "null"]

\* A Set of signatures, or the plain object {} that JSON.parse gives back for one.
NewSet == [isSet |-> TRUE, items |-> {}]
PlainObject == [isSet |-> FALSE, items |-> {}]

\* src/abnormalie.js:17-31
initializeTelemetryData(time) ==
    [networkRequests |-> <<>>,
     isolationForest |-> NullForest,
     totalRuns |-> 0,
     repetitiveRequests |-> <<>>,
     feedback |-> [falsePositives |-> <<>>, falseNegatives |-> <<>>],
     anomalyScores |-> <<>>,
     lastRetrainTime |-> time,
     requestFrequency |-> <<>>]

\* JSON.parse(JSON.stringify(t)): arrays, numbers and plain objects come back as
\* they were; a Set comes back as {} and an IsolationForest as a plain object
\* with its fields and without its methods.
JSONroundtrip(t) ==
    [t EXCEPT !.isolationForest = IF @ = NullForest THEN @ ELSE [@ EXCEPT !.class = "Object"],
              !.repetitiveRequests = [k \in DOMAIN @ |-> PlainObject]]

NoItem == [present |-> FALSE]

\* src/abnormalie.js:34-40  the item after saveTelemetryData().
saveTelemetryData(t) ==
    IF useLocalStorage THEN [present |-> TRUE, data |-> JSONroundtrip(t)] ELSE storedItem

\* obj[key] || 0 for a map of counters.
Lookup(map, key) == IF key \in DOMAIN map THEN map[key] ELSE 0

\* obj[key] = value
Store(map, key, value) == [k \in DOMAIN map \cup {key} |-> IF k = key THEN value ELSE map[k]]

\* (headers[name] || "")
Header(headers, name) == IF name \in DOMAIN headers THEN headers[name] ELSE ""

\* src/abnormalie.js:202-220.  r holds the ten fields read from the request
\* alone (Request below); the eleventh is the counter that requestFrequency
\* holds under the base of the parsed URL's href.
extractFeatures(t, r) ==
    IF r.featureBody.threw THEN Threw
    ELSE Returned(Append(r.fields, Lookup(t.requestFrequency, BaseOf(r.parsedUrl.href))))

\* Faulty variant of PushCapped: a full list keeps its oldest entry and drops
\* the new one.
PushCapped_DropNewest(list, x, cap) ==
    IF Len(list) + 1 > cap THEN list ELSE Append(list, x)

\* src/abnormalie.js:149-150 and 167-168  push, then shift when over the cap.
PushCapped(list, x, cap) ==
    IF Len(list) + 1 > cap THEN Tail(Append(list, x)) ELSE Append(list, x)

\* Faulty variant of ShouldRetrain: the first training waits for one vector more.
ShouldRetrain_Late(t, currentTime) ==
    /\ Len(t.networkRequests) > minTrainingSize
    /\ \/ t.isolationForest = NullForest
       \/ currentTime - t.lastRetrainTime > retrainIntervalMs

\* Faulty variant of ShouldRetrain: a model, once trained, is never retrained.
ShouldRetrain_NeverStale(t, currentTime) ==
    /\ Len(t.networkRequests) >= minTrainingSize
    /\ t.isolationForest = NullForest

\* src/abnormalie.js:158  the retrain condition, read after the push of line 149.
ShouldRetrain(t, currentTime) ==
    /\ Len(t.networkRequests) >= minTrainingSize
    /\ \/ t.isolationForest = NullForest
       \/ currentTime - t.lastRetrainTime > retrainIntervalMs

(* ------------------------ analyzeNetworkRequest ------------------------ *)

\* What a call of analyzeNetworkRequest did: the state it leaves (t), the
\* findings it logged, whether it reached saveTelemetryData, and the step that
\* raised an error, if one did.
Outcome(t) ==
    [t |-> t, valid |-> FALSE, features |-> <<>>, retrained |-> FALSE, scored |-> FALSE,
     score |-> 0, threshold |-> 0, findings |-> {}, identifiers |-> <<>>,
     saved |-> FALSE, threwAt |-> "none", propagated |-> FALSE]

\* A step raised: the rest of the function body is not run.
Raise(o, step) == [o EXCEPT !.threwAt = step, !.propagated = TRUE]

\* src/abnormalie.js:190-197  identifier scan, then saveTelemetryData().
IdentifierStep(o, r) ==
    IF r.scanBody.threw THEN Raise(o, "JSON.stringify")
    ELSE [o EXCEPT !.identifiers = r.identifiers,
                   !.findings = IF Len(r.identifiers) > 0 THEN @ \cup {"identifier"} ELSE @,
                   !.saved = TRUE]

\* src/abnormalie.js:177-188  repetition check.  A value read back from
\* localStorage is a plain object: it is truthy and has no has().
RepetitionStep(o, r) ==
    LET baseRequestUrl == r.baseUrl
        index == IF baseRequestUrl \in DOMAIN o.t.repetitiveRequests
                 THEN o.t.repetitiveRequests
                 ELSE Store(o.t.repetitiveRequests, baseRequestUrl, NewSet)
        hash == r.paramHash
        seen == index[baseRequestUrl]
    IN  IF ~seen.isSet THEN Raise(o, "repetitiveRequests.has")
        ELSE IF hash \in seen.items
        THEN IdentifierStep([o EXCEPT !.t.repetitiveRequests = index,
                                      !.findings = @ \cup {"repetition"}], r)
        ELSE IdentifierStep([o EXCEPT !.t.repetitiveRequests =
                                 Store(index, baseRequestUrl, [seen EXCEPT !.items = @ \cup {hash}])],
                            r)

\* Faulty variant of compareWithHistory: the threshold is computed before the
\* score is pushed.
compareWithHistory_ThresholdFirst(anomalyScores, anomalyScore, cap) ==
    LET called == calculateDynamicThreshold(anomalyScores)
    IN  [scores |-> PushCapped(called.scores, anomalyScore, cap),
         threshold |-> called.value,
         anomaly |-> anomalyScore > called.value]

\* src/abnormalie.js:166-174  the score is pushed on the score history, the
\* oldest score is dropped when the history is longer than cap, the threshold
\* is computed from the history, and the score is compared with it.
compareWithHistory(anomalyScores, anomalyScore, cap) ==
    LET called == calculateDynamicThreshold(PushCapped(anomalyScores, anomalyScore, cap))
    IN  [scores |-> called.scores,
         threshold |-> called.value,
         anomaly |-> anomalyScore > called.value]

\* src/abnormalie.js:164-175  scoring, when a model exists.
ScoringStep(o, r) ==
    IF o.t.isolationForest = NullForest THEN RepetitionStep(o, r)
    ELSE LET anomalyScore == predict(o.t.isolationForest, o.features, Len(o.t.networkRequests))
             compared == compareWithHistory(o.t.anomalyScores, anomalyScore.value, maxScoreHistory)
         IN  IF anomalyScore.threw THEN Raise(o, "predict")
             ELSE RepetitionStep(
                    [o EXCEPT !.t.anomalyScores = compared.scores,
                              !.scored = TRUE,
                              !.score = anomalyScore.value,
                              !.threshold = compared.threshold,
                              !.findings = IF compared.anomaly
                                           THEN @ \cup {"anomaly"} ELSE @],
                    r)

\* src/abnormalie.js:137-197  the body of the try block; trained is the outcome
\* of train() if the retrain condition holds.  Line 159 assigns the new forest
\* before line 160 trains it and line 161 sets lastRetrainTime.
analyzeBody(t, r, currentTime, trained) ==
    IF ~r.valid THEN Outcome(t)
    ELSE LET extracted == extractFeatures(t, r)
             features == extracted.value
             baseUrl == r.baseUrl
             t1 == [t EXCEPT !.networkRequests = PushCapped(@, features, maxRequestHistory)]
             t2 == [t1 EXCEPT !.requestFrequency = Store(@, baseUrl, Lookup(@, baseUrl) + 1)]
             retrain == ShouldRetrain(t2, currentTime)
             t3 == IF ~retrain THEN t2
                   ELSE IF trained.threw THEN [t2 EXCEPT !.isolationForest = trained.value]
                   ELSE [t2 EXCEPT !.isolationForest = trained.value,
                                   !.lastRetrainTime = currentTime]
         IN  IF extracted.threw
             THEN Raise([Outcome(t) EXCEPT !.valid = TRUE], "extractFeatures")
             ELSE IF retrain /\ trained.threw
             THEN Raise([Outcome(t3) EXCEPT !.valid = TRUE, !.features = features,
                                            !.retrained = TRUE], "train")
             ELSE ScoringStep([Outcome(t3) EXCEPT !.valid = TRUE, !.features = features,
                                                  !.retrained = retrain],
                              r)

\* Faulty variant of Caught: the function without its try block.
Caught_Rethrown(o) == o

\* src/abnormalie.js:136, 198  try { ... } catch {}: no error leaves the function.
Caught(o) == [o EXCEPT !.propagated = FALSE]

\* src/abnormalie.js:135-199
analyzeNetworkRequest(t, r, currentTime, trained) ==
    Caught(analyzeBody(t, r, currentTime, trained))

\* The outcomes of the call's train(): those of a new forest on the history
\* after the push when the retrain condition holds, none otherwise.
TrainingChoices(t, r, currentTime) ==
    LET o == analyzeBody(t, r, currentTime, Returned(NullForest))
    IN  IF o.retrained
        THEN train(IsolationForest(numTrees, sampleSize, maxDepth), o.t.networkRequests)
        ELSE {Returned(NullForest)}

(* ------------------------------- inputs -------------------------------- *)

NoOptions == [method |-> "", headers |-> <<>>, body |-> NoBody]

\* "http://a/p?k=1"
UrlRepeat == <<"h", ":", "/", "/", "a", "/", "p", "?", "k", "=", "1">>
\* "http://a/p?b=2&k=1": the base URL of UrlRepeat with another signature
UrlOther == <<"h", ":", "/", "/", "a", "/", "p", "?", "b", "=", "2", "&", "k", "=", "1">>
\* "http://ab": new URL() normalizes it to "http://ab/"
UrlBare == <<"h", ":", "/", "/", "a", "b">>
\* "/p?k=1": a relative URL, which new URL() refuses
UrlRelative == <<"/", "p", "?", "k", "=", "1">>

\* The request descriptors the host delivers.
Descriptors ==
    << [url |-> UrlRepeat, options |-> NoOptions],
       [url |-> UrlOther,
        options |-> [method |-> "POST",
                     headers |-> [h \in {"Content-Type", "Authorization"} |->
                                     IF h = "Authorization" THEN "k" ELSE "a/b"],
                     body |-> StringBody(<<"p", "=", "1", ".", "2", ".", "1", ".", "2">>)]],
       [url |-> UrlRepeat, options |-> [NoOptions EXCEPT !.method = "POST", !.body = CyclicBody]],
       [url |-> UrlRelative, options |-> NoOptions],
       [url |-> UrlBare, options |-> NoOptions] >>

\* The identifiers a caller passes to the feedback functions.
RequestIds == {"req-a", "req-b"}

\* What analyzeNetworkRequest(url, options) reads from its arguments alone:
\* the results of the calls it makes on url and options.  options is
\* [method, headers, body]; an absent options, method or headers reads as ""
\* or {} through ?. and ||.
Request(d) ==
    LET url == d.url
        options == d.options
        valid == isValidUrl(url)
        parsedUrl == IF valid THEN ParseURL(url) ELSE ParseURL(SchemePrefix \o <<"a">>)
        \* line 204, 210: JSON.stringify(options?.body || "")
        featureBody == JSONstringify(IF Truthy(options.body) THEN options.body ELSE StringBody(<<>>))
        \* line 191: options?.body ? JSON.stringify(options.body) : ""
        scanBody == IF Truthy(options.body) THEN JSONstringify(options.body) ELSE Returned(<<>>)
    IN  [url |-> url,
         valid |-> valid,
         parsedUrl |-> parsedUrl,
         featureBody |-> featureBody,
         \* lines 208-217
         fields |-> <<Len(url),
                      Len(options.method),
                      Len(featureBody.value),
                      Cardinality(DOMAIN options.headers),
                      Len(Header(options.headers, "Content-Type")),
                      Len(Header(options.headers, "Authorization")),
                      Len(Header(options.headers, "User-Agent")),
                      Len(parsedUrl.hostname),
                      Len(Split(parsedUrl.pathname, "/")),
                      Len(SearchParamsToString(parsedUrl.searchParams))>>,
         \* lines 153, 178
         baseUrl |-> BaseOf(url),
         paramHash |-> paramHash(url),
         scanBody |-> scanBody,
         \* line 192
         identifiers |-> extractIdentifiers(scanBody.value)]

\* What the send hook passes for a call opened with GET and sent without a
\* body: { method, body } and the URL given to open, absolute or relative.
XhrDescriptors ==
    << [url |-> UrlRepeat, options |-> [NoOptions EXCEPT !.method = "GET"]],
       [url |-> UrlRelative, options |-> [NoOptions EXCEPT !.method = "GET"]] >>

\* The descriptors, those of the XMLHttpRequest calls last.
AllDescriptors == Descriptors \o XhrDescriptors

\* The requests of the descriptors.
Requests == [i \in 1..Len(AllDescriptors) |-> Request(AllDescriptors[i])]

\* A request the engine processes in full: a valid URL and a body that serializes.
WellFormed(r) == r.valid /\ ~r.featureBody.threw

(* ------------------------------- actions ------------------------------- *)

\* What lastCall records of a call.
Observed(op, request, requestId, o) ==
    [op |-> op, request |-> request, requestId |-> requestId, valid |-> o.valid, features |-> o.features,
     retrained |-> o.retrained, scored |-> o.scored, score |-> o.score,
     threshold |-> o.threshold, findings |-> o.findings, identifiers |-> o.identifiers,
     saved |-> o.saved, threwAt |-> o.threwAt, propagated |-> o.propagated,
     \* whether analyzeNetworkRequest was called before with this base URL and signature
     repeat |-> FALSE]

\* src/abnormalie.js:9-15, 277-281  the script runs: telemetryData is read from
\* localStorage or initialized, totalRuns is incremented, the state is saved.
Startup(item, time) ==
    LET loaded == IF hasLocalStorage /\ item.present THEN item.data
                  ELSE initializeTelemetryData(time)
    IN  [loaded EXCEPT !.totalRuns = @ + 1]

Init ==
    /\ hasLocalStorage \in BOOLEAN
    /\ useLocalStorage = hasLocalStorage
    /\ now = 0
    /\ telemetryData = Startup(NoItem, 0)
    /\ storedItem = IF hasLocalStorage
                    THEN [present |-> TRUE, data |-> JSONroundtrip(Startup(NoItem, 0))]
                    ELSE NoItem
    /\ lastCall = Observed("load", 0, "", Outcome(<<>>))
    /\ ingested = {}
    /\ accepted = 0
    /\ scorings = 0
    /\ failures = 0
    /\ loads = 1
    /\ steps = 0
    /\ page = NoPage

\* The page is loaded again: the script runs from the top with the stored item.
Reload ==
    /\ steps < MaxSteps
    /\ steps' = steps + 1
    /\ loads' = loads + 1
    /\ useLocalStorage' = hasLocalStorage
    /\ telemetryData' = Startup(storedItem, now)
    /\ storedItem' = IF hasLocalStorage
                     THEN [present |-> TRUE, data |-> JSONroundtrip(telemetryData')]
                     ELSE storedItem
    /\ lastCall' = Observed("load", 0, "", Outcome(<<>>))
    /\ UNCHANGED <<page, hasLocalStorage, now, ingested, accepted, scorings, failures>>

\* Time passes: Date.now() is later by dt.
Tick(dt) ==
    /\ steps < MaxSteps
    /\ steps' = steps + 1
    /\ now' = now + dt
    /\ UNCHANGED <<page, telemetryData, hasLocalStorage, useLocalStorage, storedItem, lastCall,
                   ingested, accepted, scorings, failures, loads>>

\* src/abnormalie.js:135-199  analyzeNetworkRequest(url, options, response),
\* whoever calls it.
Analyze(i) ==
    LET r == Requests[i]
    IN  /\ steps < MaxSteps
        /\ steps' = steps + 1
        /\ \E trained \in TrainingChoices(telemetryData, r, now) :
              LET o == analyzeNetworkRequest(telemetryData, r, now, trained)
              IN  /\ telemetryData' = o.t
                  /\ storedItem' = IF o.saved THEN saveTelemetryData(o.t) ELSE storedItem
                  /\ lastCall' = [Observed("ingest", i, "", o) EXCEPT
                                      !.repeat = <<r.baseUrl, r.paramHash>> \in ingested]
                  /\ scorings' = IF o.scored THEN scorings + 1 ELSE scorings
                  /\ failures' = IF o.threwAt # "none" THEN failures + 1 ELSE failures
        /\ ingested' = IF r.valid THEN ingested \cup {<<r.baseUrl, r.paramHash>>} ELSE ingested
        /\ accepted' = IF WellFormed(r) THEN accepted + 1 ELSE accepted
        /\ UNCHANGED <<hasLocalStorage, useLocalStorage, now, loads>>

\* analyzeNetworkRequest called with the request of descriptor i.
Ingest(i) == Analyze(i) /\ UNCHANGED page

\* Faulty variant of reportFalsePositive: the identifier is put in front of
\* the sequence.
reportFalsePositive_Unshift(requestId) ==
    /\ steps < MaxSteps
    /\ steps' = steps + 1
    /\ telemetryData' = [telemetryData EXCEPT !.feedback.falsePositives = <<requestId>> \o @]
    /\ storedItem' = saveTelemetryData(telemetryData')
    /\ lastCall' = [Observed("reportFalsePositive", 0, requestId, Outcome(<<>>)) EXCEPT !.saved = TRUE]
    /\ UNCHANGED <<page, hasLocalStorage, useLocalStorage, now, ingested, accepted, scorings, failures, loads>>

\* src/abnormalie.js:284-287
reportFalsePositive(requestId) ==
    /\ steps < MaxSteps
    /\ steps' = steps + 1
    /\ telemetryData' = [telemetryData EXCEPT !.feedback.falsePositives = Append(@, requestId)]
    /\ storedItem' = saveTelemetryData(telemetryData')
    /\ lastCall' = [Observed("reportFalsePositive", 0, requestId, Outcome(<<>>)) EXCEPT !.saved = TRUE]
    /\ UNCHANGED <<page, hasLocalStorage, useLocalStorage, now, ingested, accepted, scorings, failures, loads>>

\* src/abnormalie.js:289-292
reportFalseNegative(requestId) ==
    /\ steps < MaxSteps
    /\ steps' = steps + 1
    /\ telemetryData' = [telemetryData EXCEPT !.feedback.falseNegatives = Append(@, requestId)]
    /\ storedItem' = saveTelemetryData(telemetryData')
    /\ lastCall' = [Observed("reportFalseNegative", 0, requestId, Outcome(<<>>)) EXCEPT !.saved = TRUE]
    /\ UNCHANGED <<page, hasLocalStorage, useLocalStorage, now, ingested, accepted, scorings, failures, loads>>

IngestAny == \E i \in 1..Len(Descriptors) : Ingest(i)
ReportAny == \E id \in RequestIds : reportFalsePositive(id) \/ reportFalseNegative(id)

TickAny == \E dt \in 1..(MaxTime - now) : Tick(dt)

Next == IngestAny \/ ReportAny \/ TickAny \/ Reload

Spec == Init /\ [][Next]_vars

(* ------------------------------- claims -------------------------------- *)

\* The step is a call of analyzeNetworkRequest.
IngestStep ==
    steps' = steps + 1 /\ now' = now /\ loads' = loads /\ lastCall'.op = "ingest"

\* The call that lastCall records was of analyzeNetworkRequest with a
\* request that is well formed.
LastIngestWellFormed == lastCall.op = "ingest" /\ WellFormed(Requests[lastCall.request])

\* list with x appended, the oldest entry dropped when the cap is exceeded.
FifoAppend(list, x, cap) ==
    IF Len(list) < cap THEN list \o <<x>>
    ELSE SubSeq(list, 2, Len(list)) \o <<x>>

\* C1: in a session that started from the empty state, the request history
\* never holds more than maxRequestHistory vectors and the score history never
\* more than maxScoreHistory scores; a call that appends a vector (a score)
\* leaves the list as it was with the new entry at the end, less its oldest
\* entry when the cap would be exceeded, and no other step of the session
\* changes either list.
C1_BoundedFifo ==
    /\ [](/\ Len(telemetryData.networkRequests) <= maxRequestHistory
          /\ Len(telemetryData.anomalyScores) <= maxScoreHistory)
    /\ [][loads' = loads =>
            /\ telemetryData'.networkRequests =
                 IF IngestStep /\ lastCall'.features # <<>>
                 THEN FifoAppend(telemetryData.networkRequests, lastCall'.features,
                                 maxRequestHistory)
                 ELSE telemetryData.networkRequests
            /\ telemetryData'.anomalyScores =
                 IF IngestStep /\ lastCall'.scored
                 THEN FifoAppend(telemetryData.anomalyScores, lastCall'.score, maxScoreHistory)
                 ELSE telemetryData.anomalyScores]_vars

\* C1 witness: a session from the empty state in which both lists are full
\* and have each evicted an entry.
C1_Evicted ==
    /\ loads = 1
    /\ accepted > maxRequestHistory
    /\ scorings > maxScoreHistory
    /\ Len(telemetryData.networkRequests) = maxRequestHistory
    /\ Len(telemetryData.anomalyScores) = maxScoreHistory

\* C2: in a session that started from the empty state, while fewer than
\* minTrainingSize well-formed requests have been ingested there is no model,
\* the score history is empty and no anomaly finding is logged; the ingest of
\* the minTrainingSize-th well-formed request trains a model.
C2_TrainsAtMinimum ==
    loads = 1 =>
        /\ accepted < minTrainingSize =>
              /\ telemetryData.isolationForest = NullForest
              /\ telemetryData.anomalyScores = <<>>
              /\ "anomaly" \notin lastCall.findings
              /\ ~lastCall.retrained
        /\ (accepted = minTrainingSize /\ LastIngestWellFormed) =>
              /\ lastCall.retrained
              /\ telemetryData.isolationForest # NullForest
              /\ telemetryData.isolationForest.class = "IsolationForest"
              /\ Len(telemetryData.isolationForest.trees) = numTrees

\* C2 witness: the minTrainingSize-th well-formed ingest has just trained.
C2_JustTrained ==
    /\ loads = 1
    /\ accepted = minTrainingSize
    /\ LastIngestWellFormed
    /\ lastCall.retrained

\* C3: a call of analyzeNetworkRequest with a well-formed request retrains
\* exactly when, with the new vector in the history, there is no model and
\* the history holds at least minTrainingSize vectors, or there is a model
\* and more than retrainIntervalMs have passed since lastRetrainTime; a
\* retrain sets lastRetrainTime to the time of the call; every other step
\* of a page session (a call that does not retrain, a feedback report, the
\* passing of time) leaves the model and lastRetrainTime as they were.
C3_RetrainPolicy ==
    [][loads' = loads =>
         LET forest == telemetryData.isolationForest
             history == telemetryData'.networkRequests
             due == \/ forest = NullForest /\ Len(history) >= minTrainingSize
                    \/ forest # NullForest /\ now - telemetryData.lastRetrainTime > retrainIntervalMs
         IN  /\ (IngestStep /\ WellFormed(Requests[lastCall'.request])) =>
                    (lastCall'.retrained <=> due)
             /\ IF IngestStep /\ lastCall'.retrained
                THEN /\ telemetryData'.lastRetrainTime = now
                     /\ telemetryData'.isolationForest.class = "IsolationForest"
                     /\ Len(telemetryData'.isolationForest.trees) = numTrees
                ELSE /\ telemetryData'.lastRetrainTime = telemetryData.lastRetrainTime
                     /\ telemetryData'.isolationForest = forest]_vars

\* C3 witness: a model that was trained earlier in the session has just been
\* retrained because it was stale.
C3_StaleRetrain ==
    /\ loads = 1
    /\ accepted > minTrainingSize
    /\ LastIngestWellFormed
    /\ lastCall.retrained
    /\ now > retrainIntervalMs
    /\ telemetryData.lastRetrainTime = now

\* C4: after a call of analyzeNetworkRequest with a well-formed request that
\* leaves a model in place, predict has returned a score between 0 and 1 and
\* the call has appended it to the score history.
C4_ScoredInUnitInterval ==
    (loads = 1 /\ LastIngestWellFormed /\ telemetryData.isolationForest # NullForest) =>
        /\ lastCall.scored
        /\ lastCall.score \in 0..ScoreScale
        /\ telemetryData.anomalyScores # <<>>
        /\ telemetryData.anomalyScores[Len(telemetryData.anomalyScores)] = lastCall.score

\* C5: in a session that started from the empty state, a call of
\* analyzeNetworkRequest with a valid URL logs a repetition finding exactly
\* when an earlier call of the session had the same base URL and the same
\* parameter signature, whatever the other steps of those calls did.
C5_RepetitionExactlyOnRepeat ==
    (loads = 1 /\ lastCall.op = "ingest" /\ lastCall.valid) =>
        ("repetition" \in lastCall.findings <=> lastCall.repeat)

\* C7: no error raised in a step of analyzeNetworkRequest leaves the function,
\* and every call with a well-formed request, also one that follows calls in
\* which a step failed, puts the request's feature vector at the end of the
\* request history.
C7_FailOpen ==
    [][IngestStep =>
         LET r == Requests[lastCall'.request]
             history == telemetryData'.networkRequests
         IN  /\ ~lastCall'.propagated
             /\ WellFormed(r) =>
                  /\ Len(history) = IF Len(telemetryData.networkRequests) < maxRequestHistory
                                    THEN Len(telemetryData.networkRequests) + 1
                                    ELSE maxRequestHistory
                  /\ SubSeq(history[Len(history)], 1, Len(r.fields)) = r.fields
                  /\ Len(history[Len(history)]) = Len(r.fields) + 1]_vars

\* C7 witness: a step of an earlier call failed, and the last call, with a
\* well-formed request, appended its vector.
C7_AppendedAfterFailure ==
    /\ failures >= 1
    /\ LastIngestWellFormed
    /\ lastCall.threwAt = "none"
    /\ telemetryData.networkRequests # <<>>
    /\ telemetryData.networkRequests[Len(telemetryData.networkRequests)] = lastCall.features

\* C8: a call of analyzeNetworkRequest in which a step failed has still run
\* the steps after it, so it has reached saveTelemetryData.
C8_OnlyFailingStepSkipped ==
    (lastCall.op = "ingest" /\ lastCall.valid /\ lastCall.threwAt # "none") => lastCall.saved

\* C9: a call of analyzeNetworkRequest with a URL that is not absolute leaves
\* telemetryData and the stored item as they were, logs no finding, does not
\* reach saveTelemetryData and raises no error.
C9_InvalidUrlNoOp ==
    [][(IngestStep /\ Descriptors[lastCall'.request].url = UrlRelative) =>
         /\ telemetryData' = telemetryData
         /\ storedItem' = storedItem
         /\ useLocalStorage' = useLocalStorage
         /\ lastCall'.findings = {}
         /\ lastCall'.identifiers = <<>>
         /\ ~lastCall'.saved
         /\ lastCall'.threwAt = "none"
         /\ ~lastCall'.propagated]_vars

\* C9 witness: the relative URL was passed when the state held history, a
\* model and feedback.
C9_RejectedWithState ==
    /\ lastCall.op = "ingest"
    /\ Descriptors[lastCall.request].url = UrlRelative
    /\ telemetryData.networkRequests # <<>>
    /\ telemetryData.isolationForest # NullForest
    /\ telemetryData.feedback.falsePositives # <<>>

\* The step is a call of the feedback function op.
ReportStep(op) ==
    steps' = steps + 1 /\ now' = now /\ loads' = loads /\ lastCall'.op = op

\* C10: within a page session, a call of reportFalsePositive puts its
\* argument once at the end of feedback.falsePositives and leaves
\* feedback.falseNegatives alone, a call of reportFalseNegative does the same
\* with the lists exchanged, and every other step leaves both lists as they
\* were.
C10_FeedbackAppendOnly ==
    [][loads' = loads =>
         /\ telemetryData'.feedback.falsePositives =
              IF ReportStep("reportFalsePositive")
              THEN telemetryData.feedback.falsePositives \o <<lastCall'.requestId>>
              ELSE telemetryData.feedback.falsePositives
         /\ telemetryData'.feedback.falseNegatives =
              IF ReportStep("reportFalseNegative")
              THEN telemetryData.feedback.falseNegatives \o <<lastCall'.requestId>>
              ELSE telemetryData.feedback.falseNegatives]_vars

\* C10 witness: the same identifier was reported twice as a false positive,
\* another as a false negative, and a request was analyzed afterwards.
C10_ReportedThenIngested ==
    /\ Len(telemetryData.feedback.falsePositives) = 2
    /\ telemetryData.feedback.falsePositives[1] = telemetryData.feedback.falsePositives[2]
    /\ Len(telemetryData.feedback.falseNegatives) = 1
    /\ lastCall.op = "ingest"
    /\ lastCall.valid

(* ------------------- calculateDynamicThreshold alone ------------------- *)

\* The score histories the function is given: every history of up to three
\* scores out of three, and histories of up to MaxScores scores that step
\* through the score levels.
SmallScores == {0, ScoreScale \div 2, ScoreScale}
SteppedScores(n, a, b) ==
    [i \in 1..n |-> ((a * i + b) % ScoreLevels) * (ScoreScale \div ScoreLevels)]
ScoreHistories ==
    UNION {[1..n -> SmallScores] : n \in 0..3}
        \cup {SteppedScores(n, a, b) : n \in 0..MaxScores, a \in 0..3, b \in 0..3}

InitThreshold ==
    /\ hasLocalStorage = FALSE
    /\ useLocalStorage = FALSE
    /\ now = 0
    /\ \E scores \in ScoreHistories :
          telemetryData = [Startup(NoItem, 0) EXCEPT !.anomalyScores = scores]
    /\ storedItem = NoItem
    /\ lastCall = Observed("load", 0, "", Outcome(<<>>))
    /\ ingested = {}
    /\ accepted = 0
    /\ scorings = 0
    /\ failures = 0
    /\ loads = 1
    /\ steps = 0
    /\ page = NoPage

\* src/abnormalie.js:242-247  calculateDynamicThreshold(telemetryData.anomalyScores)
Threshold ==
    /\ lastCall.op = "load"
    /\ steps' = steps + 1
    /\ LET called == calculateDynamicThreshold(telemetryData.anomalyScores)
       IN  /\ telemetryData' = [telemetryData EXCEPT !.anomalyScores = called.scores]
           /\ lastCall' = [Observed("calculateDynamicThreshold", 0, "", Outcome(<<>>))
                              EXCEPT !.threshold = called.value]
    /\ UNCHANGED <<page, hasLocalStorage, useLocalStorage, storedItem, now, ingested, accepted,
                   scorings, failures, loads>>

NextThreshold == Threshold

SpecThreshold == InitThreshold /\ [][NextThreshold]_vars

\* C6: calculateDynamicThreshold returns 0.8 for an empty history; for a
\* history of N scores it returns the score that stands at index
\* floor(0.95 N) when the scores are put in ascending order, that index lies
\* in 0..N-1, and the history passed is as it was, in the same order.
C6_Percentile ==
    [][lastCall'.op = "calculateDynamicThreshold" =>
         LET scores == telemetryData.anomalyScores
             N == Len(scores)
             value == lastCall'.threshold
         IN  /\ telemetryData'.anomalyScores = scores
             /\ N = 0 => (10 * value <= 8 * ScoreScale /\ 8 * ScoreScale < 10 * (value + 1))
             /\ N > 0 =>
                  \E index \in 0..(N - 1) :
                     /\ 100 * index <= 95 * N
                     /\ 95 * N < 100 * (index + 1)
                     /\ \E i \in 1..N : scores[i] = value
                     /\ Cardinality({i \in 1..N : scores[i] < value}) <= index
                     /\ Cardinality({i \in 1..N : scores[i] <= value}) > index]_vars

\* C6 witness: the function was given twenty or more scores out of order, and
\* the value it returned is not the largest of them.
C6_BelowMaximum ==
    /\ lastCall.op = "calculateDynamicThreshold"
    /\ Len(telemetryData.anomalyScores) >= 20
    /\ \E i \in 1..Len(telemetryData.anomalyScores) :
          telemetryData.anomalyScores[i] > lastCall.threshold
    /\ \E i \in 1..(Len(telemetryData.anomalyScores) - 1) :
          telemetryData.anomalyScores[i] > telemetryData.anomalyScores[i + 1]

(* --------------------------- buildTree alone --------------------------- *)

\* The points of the datasets: vectors of two features, equal on the first
\* feature and apart on the second.
Points == {<<0, 0>>, <<0, 2>>}

\* The non-empty datasets of up to MaxPoints points, repeated points included.
Datasets == UNION {[1..n -> Points] : n \in 1..MaxPoints}

\* The variables that the functions of the forest, run on their own, leave alone.
Idle ==
    /\ hasLocalStorage = FALSE
    /\ useLocalStorage = FALSE
    /\ now = 0
    /\ storedItem = NoItem
    /\ ingested = {}
    /\ accepted = 0
    /\ scorings = 0
    /\ failures = 0
    /\ loads = 1
    /\ page = NoPage

\* A dataset as networkRequests and a forest, not yet trained, of any depth.
InitTree ==
    /\ Idle
    /\ \E data \in Datasets, d \in 0..MaxTreeDepth :
          telemetryData = [Startup(NoItem, 0) EXCEPT
                              !.networkRequests = data,
                              !.isolationForest = IsolationForest(1, Len(data), d)]
    /\ lastCall = Observed("load", 0, "", Outcome(<<>>))
    /\ steps = 0

\* src/abnormalie.js:83-97  this.buildTree(data, 0); the tree is kept as the
\* forest's only tree.
BuildTree ==
    /\ lastCall.op = "load"
    /\ steps' = steps + 1
    /\ \E built \in buildTree(telemetryData.isolationForest, telemetryData.networkRequests, 0) :
          /\ telemetryData' = IF built.threw THEN telemetryData
                              ELSE [telemetryData EXCEPT !.isolationForest.trees = <<built.value>>]
          /\ lastCall' = [Observed("buildTree", 0, "", Outcome(<<>>)) EXCEPT
                             !.threwAt = IF built.threw THEN "buildTree" ELSE "none"]
    /\ UNCHANGED <<page, hasLocalStorage, useLocalStorage, storedItem, now, ingested, accepted,
                   scorings, failures, loads>>

NextTree == BuildTree

SpecTree == InitTree /\ [][NextTree]_vars

RECURSIVE TreeDepth(_)
\* The number of edges from the root to the deepest leaf.
TreeDepth(tree) ==
    IF "size" \in DOMAIN tree THEN 0
    ELSE 1 + (IF TreeDepth(tree.left) > TreeDepth(tree.right)
              THEN TreeDepth(tree.left) ELSE TreeDepth(tree.right))

RECURSIVE LeafTotal(_)
\* The sum of the sizes that the leaves record.
LeafTotal(tree) ==
    IF "size" \in DOMAIN tree THEN tree.size
    ELSE LeafTotal(tree.left) + LeafTotal(tree.right)

RECURSIVE SizesAsRouted(_, _)
\* Every leaf records the number of the points that the comparisons on the
\* way to it send there.
SizesAsRouted(tree, points) ==
    IF "size" \in DOMAIN tree THEN tree.size = Len(points)
    ELSE /\ SizesAsRouted(tree.left,
                SelectSeq(points, LAMBDA q : q[tree.feature + 1] * RandDen < tree.splitValue))
         /\ SizesAsRouted(tree.right,
                SelectSeq(points, LAMBDA q : q[tree.feature + 1] * RandDen >= tree.splitValue))

\* C11: for every non-empty dataset and every maxDepth >= 0, buildTree(data, 0)
\* returns a tree and raises nothing, no leaf of the tree lies deeper than
\* maxDepth, every leaf records the number of points routed to it, and the
\* leaf sizes add up to the size of the dataset.
C11_TreeBuilt ==
    /\ lastCall.op = "load" => ENABLED BuildTree
    /\ lastCall.op = "buildTree" =>
          /\ lastCall.threwAt = "none"
          /\ Len(telemetryData.isolationForest.trees) = 1
          /\ LET tree == telemetryData.isolationForest.trees[1]
             IN  /\ TreeDepth(tree) <= telemetryData.isolationForest.maxDepth
                 /\ SizesAsRouted(tree, telemetryData.networkRequests)
                 /\ LeafTotal(tree) = Len(telemetryData.networkRequests)

\* C11 witness: all points of the dataset are the same, every split has sent
\* them all to the right, and the depth bound has ended the recursion.
C11_AllRightToDepthBound ==
    /\ lastCall.op = "buildTree"
    /\ Len(telemetryData.networkRequests) = MaxPoints
    /\ \A i \in 1..MaxPoints : telemetryData.networkRequests[i] = telemetryData.networkRequests[1]
    /\ telemetryData.isolationForest.maxDepth = MaxTreeDepth
    /\ TreeDepth(telemetryData.isolationForest.trees[1]) = MaxTreeDepth
    /\ telemetryData.isolationForest.trees[1].left = [size |-> 0]
    /\ telemetryData.isolationForest.trees[1].right.right = [size |-> MaxPoints]

(* ----------------------------- train alone ----------------------------- *)

\* An empty dataset, or one of a single point, and a forest of one or two
\* trees with any sample size and any depth.
InitTrain ==
    /\ Idle
    /\ \E data \in {<<>>} \cup {<<p>> : p \in Points},
          n \in 1..2, size \in 0..MaxPoints, d \in 0..MaxTreeDepth :
          telemetryData = [Startup(NoItem, 0) EXCEPT
                              !.networkRequests = data,
                              !.isolationForest = IsolationForest(n, size, d)]
    /\ lastCall = Observed("load", 0, "", Outcome(<<>>))
    /\ steps = 0

\* src/abnormalie.js:67-73  forest.train(data)
Train ==
    /\ lastCall.op = "load"
    /\ steps' = steps + 1
    /\ \E trained \in train(telemetryData.isolationForest, telemetryData.networkRequests) :
          /\ telemetryData' = [telemetryData EXCEPT !.isolationForest = trained.value]
          /\ lastCall' = [Observed("train", 0, "", Outcome(<<>>)) EXCEPT
                             !.threwAt = IF trained.threw THEN "train" ELSE "none"]
    /\ UNCHANGED <<page, hasLocalStorage, useLocalStorage, storedItem, now, ingested, accepted,
                   scorings, failures, loads>>

NextTrain == Train

SpecTrain == InitTrain /\ [][NextTrain]_vars

\* C12: train on an empty dataset or on a dataset of a single point raises no
\* error and leaves the forest with numTrees trees.
C12_DegenerateDataTrains ==
    lastCall.op = "train" =>
        /\ lastCall.threwAt = "none"
        /\ Len(telemetryData.isolationForest.trees) = telemetryData.isolationForest.numTrees

(* --------------------------- later claims ------------------------------ *)

\* C13: a call of analyzeNetworkRequest with a well-formed request logs an
\* identifier finding exactly when extractIdentifiers returns a non-empty
\* result for the request's serialized body.
C13_IdentifierFindingIffMatch ==
    LastIngestWellFormed =>
        ("identifier" \in lastCall.findings
            <=> extractIdentifiers(Requests[lastCall.request].scanBody.value) # <<>>)

(* ------------------------- the hooked network API ---------------------- *)

\* The page makes one outbound call at a time; a call is outstanding from
\* fetch(...) or send(...) until every callback of its completion has run.
PageIdle == page.fetchPending = 0 /\ ~page.xhr.inFlight /\ page.due = 0

\* The record of an outbound call that has just been made.
CallMade(kind) ==
    [kind |-> kind, original |-> "pending", hooked |-> "pending", value |-> "none", ingests |-> 0]

\* Nothing of the engine changes.
EngineUnchanged ==
    UNCHANGED <<telemetryData, hasLocalStorage, useLocalStorage, storedItem, now, lastCall,
                ingested, accepted, scorings, failures, loads, steps>>

\* new XMLHttpRequest(): an object without listeners.
XhrNew ==
    /\ PageIdle
    /\ page.xhr.listeners > 0
    /\ page' = [page EXCEPT !.xhr = NoPage.xhr]
    /\ EngineUnchanged

\* src/abnormalie.js:264-268  xhr.open(method, url): the method and the URL
\* are kept on the object.
XhrOpen(i) ==
    /\ PageIdle
    /\ page.calls < MaxCalls
    /\ page' = [page EXCEPT !.xhr.opened = TRUE, !.xhr.request = i]
    /\ EngineUnchanged

\* src/abnormalie.js:269-275  xhr.send(body): one more loadend listener is
\* added to the object, then the original send runs.
XhrSend ==
    /\ PageIdle
    /\ page.xhr.opened
    /\ page.calls < MaxCalls
    /\ page' = [page EXCEPT !.xhr.listeners = @ + 1,
                            !.xhr.inFlight = TRUE,
                            !.calls = @ + 1,
                            !.last = CallMade("xhr")]
    /\ EngineUnchanged

\* The call completes or fails: loadend is dispatched to every listener the
\* object has.
XhrLoadend(ok) ==
    /\ page.xhr.inFlight
    /\ page' = [page EXCEPT !.xhr.inFlight = FALSE,
                            !.xhr.opened = FALSE,
                            !.due = page.xhr.listeners,
                            !.last.original = IF ok THEN "resolved" ELSE "rejected",
                            !.last.hooked = IF ok THEN "resolved" ELSE "rejected"]
    /\ EngineUnchanged

\* src/abnormalie.js:271-273  one loadend listener runs.
XhrListener ==
    /\ page.due > 0
    /\ Analyze(page.xhr.request)
    /\ page' = [page EXCEPT !.due = @ - 1, !.last.ingests = @ + 1]

\* src/abnormalie.js:250-252  fetch(url, options): the original fetch is called.
FetchCall(i) ==
    /\ PageIdle
    /\ page.calls < MaxCalls
    /\ page' = [page EXCEPT !.fetchPending = i, !.calls = @ + 1, !.last = CallMade("fetch")]
    /\ EngineUnchanged

\* src/abnormalie.js:252-258  the original promise settles. Resolved: the
\* then callback analyzes the request and returns the response. Rejected:
\* the catch callback analyzes the request and returns nothing, so the promise
\* the page holds resolves with undefined.
FetchSettle(ok) ==
    /\ page.fetchPending # 0
    /\ Analyze(page.fetchPending)
    /\ page' = [page EXCEPT !.fetchPending = 0,
                            !.last.original = IF ok THEN "resolved" ELSE "rejected",
                            !.last.hooked = "resolved",
                            !.last.value = IF ok THEN "response" ELSE "undefined",
                            !.last.ingests = @ + 1]

XhrOpenAny == \E i \in (Len(Descriptors) + 1)..Len(AllDescriptors) : XhrOpen(i)
XhrLoadendAny == \E ok \in BOOLEAN : XhrLoadend(ok)
FetchCallAny == \E i \in 1..Len(Descriptors) : FetchCall(i)
FetchSettleAny == \E ok \in BOOLEAN : FetchSettle(ok)

NextHooks ==
    XhrNew \/ XhrOpenAny \/ XhrSend \/ XhrLoadendAny \/ XhrListener \/ FetchCallAny \/ FetchSettleAny

SpecHooks == Init /\ [][NextHooks]_vars

\* The last outbound call has completed and all its callbacks have run.
LastCallDone == page.last.original \in {"resolved", "rejected"} /\ page.due = 0

\* C14: every outbound call made through the hooked fetch or the hooked
\* XMLHttpRequest.send has caused exactly one call of analyzeNetworkRequest
\* once the call has completed or failed and its callbacks have run.
C14_OneIngestPerCall == LastCallDone => page.last.ingests = 1

\* C18: the promise the hooked fetch returns settles as the original fetch
\* does: resolved with the response when the original resolves, rejected
\* when the original rejects.
C18_FetchTransparent ==
    (page.last.kind = "fetch" /\ page.last.original \in {"resolved", "rejected"}) =>
        /\ page.last.hooked = page.last.original
        /\ page.last.original = "resolved" => page.last.value = "response"

(* --------------------------- pathLength alone -------------------------- *)

\* src/abnormalie.js:100-107  this.pathLength(dataPoint, tree) on the tree
\* that buildTree returned.
PathLength(dataPoint) ==
    /\ lastCall.op = "buildTree"
    /\ lastCall.threwAt = "none"
    /\ steps' = steps + 1
    /\ LET walked == pathLength(dataPoint, telemetryData.isolationForest.trees[1])
       IN  lastCall' = [Observed("pathLength", 0, "", Outcome(<<>>)) EXCEPT
                            !.features = dataPoint,
                            !.score = walked.value,
                            !.threwAt = IF walked.threw THEN "pathLength" ELSE "none"]
    /\ UNCHANGED <<page, telemetryData, hasLocalStorage, useLocalStorage, storedItem, now,
                   ingested, accepted, scorings, failures, loads>>

PathLengthAny == \E dataPoint \in Points : PathLength(dataPoint)

NextPath == BuildTree \/ PathLengthAny

SpecPath == InitTree /\ [][NextPath]_vars

\* The edges from the root of tree to the leaf that dataPoint is routed to.
RECURSIVE EdgesWalked(_, _)
EdgesWalked(dataPoint, tree) ==
    IF "size" \in DOMAIN tree THEN 0
    ELSE 1 + EdgesWalked(dataPoint,
                 IF dataPoint[tree.feature + 1] * RandDen < tree.splitValue
                 THEN tree.left ELSE tree.right)

\* C15: pathLength on a tree built by buildTree raises no error and returns
\* the number of edges walked to the leaf plus 1, whatever the leaf's size.
C15_PathLengthCountsLeafAsOne ==
    lastCall.op = "pathLength" =>
        /\ lastCall.threwAt = "none"
        /\ lastCall.score = EdgesWalked(lastCall.features, telemetryData.isolationForest.trees[1]) + 1

(* ------------------------- the model that is held ---------------------- *)

\* The forest holds numTrees trees, each built to the end: no leaf deeper
\* than maxDepth, the leaves sharing out a whole sample.
FullyBuilt(forest) ==
    /\ Len(forest.trees) = numTrees
    /\ \A k \in 1..numTrees :
          /\ TreeDepth(forest.trees[k]) <= maxDepth
          /\ LeafTotal(forest.trees[k]) = sampleSize

RECURSIVE BuiltFrom(_, _, _)
\* tree is a tree that buildTree(data, depth) can return.
BuiltFrom(tree, data, depth) ==
    IF Len(data) <= 1 \/ depth >= maxDepth THEN tree = [size |-> Len(data)]
    ELSE /\ "feature" \in DOMAIN tree
         /\ tree.feature \in 0..(Len(data[1]) - 1)
         /\ \E k \in Rand : tree.splitValue = getRandomValue(data, tree.feature, k)
         /\ BuiltFrom(tree.left,
                SelectSeq(data, LAMBDA q : LessThanSplit(q, tree.feature, tree.splitValue)),
                depth + 1)
         /\ BuiltFrom(tree.right,
                SelectSeq(data, LAMBDA q : ~LessThanSplit(q, tree.feature, tree.splitValue)),
                depth + 1)

\* forest is a new forest that train(data) has filled: each of its numTrees
\* trees is built from a sample of data.
TrainedOn(forest, data) ==
    /\ forest.class = "IsolationForest"
    /\ Len(forest.trees) = numTrees
    /\ \A k \in 1..numTrees :
          \E sample \in getRandomSample(data, sampleSize) : BuiltFrom(forest.trees[k], sample, 0)

\* C16: the model held is absent or holds numTrees fully built trees; a call
\* of analyzeNetworkRequest that retrains leaves a model that train() returns
\* for the history with the call's vector in it, and sets lastRetrainTime; no
\* build fails, and a call that fails before the build leaves the model and
\* lastRetrainTime as they were; a call that scores reads a fully built model.
C16_ModelReplacedWhole ==
    /\ [](\/ telemetryData.isolationForest = NullForest
          \/ FullyBuilt(telemetryData.isolationForest))
    /\ [](lastCall.threwAt # "train")
    /\ [][IngestStep =>
            IF lastCall'.retrained
            THEN /\ TrainedOn(telemetryData'.isolationForest, telemetryData'.networkRequests)
                 /\ lastCall'.features
                        = telemetryData'.networkRequests[Len(telemetryData'.networkRequests)]
                 /\ telemetryData'.lastRetrainTime = now
            ELSE /\ telemetryData'.isolationForest = telemetryData.isolationForest
                 /\ telemetryData'.lastRetrainTime = telemetryData.lastRetrainTime
                 /\ lastCall'.scored => FullyBuilt(telemetryData.isolationForest)]_vars

\* C16 witness: a model built earlier in the session has just been replaced
\* by one trained on a full history.
C16_ReplacedOverFullHistory ==
    /\ loads = 1
    /\ LastIngestWellFormed
    /\ lastCall.retrained
    /\ accepted > minTrainingSize
    /\ Len(telemetryData.networkRequests) = maxRequestHistory
    /\ FullyBuilt(telemetryData.isolationForest)
    /\ TreeDepth(telemetryData.isolationForest.trees[1]) = maxDepth

(* ------------------------- the frequency field ------------------------- *)

\* C17: the frequency field of the vector that a call of
\* analyzeNetworkRequest extracts from a well-formed request is the counter
\* the frequency map held, before the call, for the base URL whose counter
\* the call then increments: one less than the counter after the call.
C17_FrequencyOfIncrementedKey ==
    LastIngestWellFormed =>
        lastCall.features[11]
            = Lookup(telemetryData.requestFrequency, Requests[lastCall.request].baseUrl) - 1

(* ----------------------- scoring against the history ------------------- *)

\* The scores predict() can return: the levels of the stepped histories and
\* the small scores.
ScoreChoices == SmallScores \cup {l * (ScoreScale \div ScoreLevels) : l \in 0..(ScoreLevels - 1)}

\* src/abnormalie.js:166-174  a call of analyzeNetworkRequest that scores,
\* with a score history that holds up to MaxScores scores.
Score(anomalyScore) ==
    /\ lastCall.op = "load"
    /\ steps' = steps + 1
    /\ scorings' = scorings + 1
    /\ LET compared == compareWithHistory(telemetryData.anomalyScores, anomalyScore, MaxScores)
       IN  /\ telemetryData' = [telemetryData EXCEPT !.anomalyScores = compared.scores]
           /\ lastCall' = [Observed("ingest", 0, "", Outcome(<<>>)) EXCEPT
                              !.valid = TRUE,
                              !.scored = TRUE,
                              !.score = anomalyScore,
                              !.threshold = compared.threshold,
                              !.findings = IF compared.anomaly THEN {"anomaly"} ELSE {}]
    /\ UNCHANGED <<page, hasLocalStorage, useLocalStorage, storedItem, now, ingested, accepted,
                   failures, loads>>

NextScoring == \E anomalyScore \in ScoreChoices : Score(anomalyScore)

SpecScoring == InitThreshold /\ [][NextScoring]_vars

\* C19: after a call that scores, the score history ends with the call's
\* score and is not empty, the threshold is a score of the history, with 1
\* to 19 scores in the history the threshold is the largest of them, and an
\* anomaly is logged only with 20 scores or more in the history.
C19_AnomalyNeedsTwentyScores ==
    lastCall.scored =>
        LET scores == telemetryData.anomalyScores
            N == Len(scores)
        IN  /\ N >= 1
            /\ scores[N] = lastCall.score
            /\ \E i \in 1..N : scores[i] = lastCall.threshold
            /\ N <= 19 => lastCall.threshold = SeqMax(scores)
            /\ "anomaly" \in lastCall.findings => N >= 20

\* C19 witness: an anomaly has been logged, with more than 20 scores in the
\* history.
C19_AnomalyLogged ==
    /\ lastCall.scored
    /\ "anomaly" \in lastCall.findings
    /\ Len(telemetryData.anomalyScores) > 20

(* ----------------------- the parameter signature ----------------------- *)

\* The query strings compared: every string of up to MaxQueryLen characters
\* out of a name character, the comma and the two separators.
QueryChars == {"a", ",", "=", "&"}
Queries == UNION {[1..n -> QueryChars] : n \in 0..MaxQueryLen}

\* The page is about to request two URLs with the base URL of UrlRepeat.
InitSignature ==
    /\ hasLocalStorage = FALSE
    /\ useLocalStorage = FALSE
    /\ now = 0
    /\ storedItem = NoItem
    /\ ingested = {}
    /\ accepted = 0
    /\ scorings = 0
    /\ failures = 0
    /\ loads = 1
    /\ telemetryData = Startup(NoItem, 0)
    /\ lastCall = Observed("load", 0, "", Outcome(<<>>))
    /\ steps = 0
    /\ \E q1 \in Queries, q2 \in Queries :
          page = [NoPage EXCEPT !.urls = <<BaseOf(UrlRepeat) \o <<"?">> \o q1,
                                           BaseOf(UrlRepeat) \o <<"?">> \o q2>>]

\* src/abnormalie.js:177-197  the repetition step and the steps after it, of
\* a call of analyzeNetworkRequest with the page's next URL and no options.
Sign ==
    /\ steps < Len(page.urls)
    /\ steps' = steps + 1
    /\ LET r == Request([url |-> page.urls[steps + 1], options |-> NoOptions])
           o == Caught(RepetitionStep([Outcome(telemetryData) EXCEPT !.valid = TRUE], r))
       IN  /\ telemetryData' = o.t
           /\ storedItem' = IF o.saved THEN saveTelemetryData(o.t) ELSE storedItem
           /\ lastCall' = Observed("ingest", 0, "", o)
    /\ UNCHANGED <<page, hasLocalStorage, useLocalStorage, now, ingested, accepted, scorings,
                   failures, loads>>

NextSignature == Sign

SpecSignature == InitSignature /\ [][NextSignature]_vars

\* The number of times the pair e occurs among entries.
PairCount(entries, e) == Cardinality({i \in 1..Len(entries) : entries[i] = e})

\* a and b hold the same multiset of name/value pairs.
SamePairs(a, b) ==
    /\ Len(a) = Len(b)
    /\ \A i \in 1..Len(a) : PairCount(a, a[i]) = PairCount(b, a[i])

\* C20: of two calls with the same base URL, the second is flagged as a
\* repetition exactly when the two query strings hold the same multiset of
\* name/value pairs.
C20_SignatureIffSamePairs ==
    (steps = 2 /\ Len(page.urls) = 2) =>
        ("repetition" \in lastCall.findings
            <=> SamePairs(URLSearchParams(QueryOf(page.urls[1])),
                          URLSearchParams(QueryOf(page.urls[2]))))

====
